---------------------------- MODULE Spec2Model ----------------------------
(***************************************************************************)
(* A model of pqxx::connection_base (src/src/connection_base.cxx): the     *)
(* session object, its handle, the receiver registry, the error handler    *)
(* chain and the notice normalisation, together with the part of the       *)
(* protocol driver (libpq) and of the connection policy the session talks  *)
(* to.                                                                     *)
(*                                                                         *)
(* Conventions.                                                            *)
(*  - One action per member function; an action is the whole call,         *)
(*    nested calls included.                                               *)
(*  - The driver's answers (command outcome, versions, consume_input) and  *)
(*    the callbacks' answers (a handler's return value, a receiver that    *)
(*    throws) are inputs drawn with \E.                                    *)
(*  - last, sent, calls, noticed and seen describe the most recent call:   *)
(*    what it was, what it handed to the driver, which receivers and       *)
(*    handlers it invoked. Every action rewrites them.                     *)
(*  - Text is a sequence of one-character strings. The fixed diagnostic    *)
(*    texts are abbreviated (their wording plays no role); what is kept    *)
(*    is whether a text ends in a newline.                                 *)
(*  - Allocation failure (std::bad_alloc) is modelled in process_notice,   *)
(*    whose fallback paths exist for it, and nowhere else.                 *)
(***************************************************************************)
EXTENDS Integers, Sequences, FiniteSets, TLC

(***************************************************************************)
(* Bounds of the model.                                                    *)
(***************************************************************************)
\* Number of notification_receiver objects.
MaxNames == 2       \* calls of adorn_name followed per session object
EarlierCalls == 8   \* calls of adorn_name a session object may have behind it
NumReceivers == 3
\* Number of errorhandler objects.
NumHandlers == 2
\* Notifications the driver buffers at most.
MaxPending == 2
\* Longest notice text, in full chunks of the fallback buffer.
MaxChunks == 2
\* Notice lengths are tried this far around each multiple of the chunk size.
MaxSlack == 1
\* Longest tail of free characters at the end of a notice text.
MaxTail == 2

(***************************************************************************)
(* Program constants.                                                      *)
(***************************************************************************)
\* char buf[1007] of process_notice's fallback.
BufSize == 1007
\* read_capabilities: server versions up to this one are refused.
MinServerVersion == 90000
\* read_capabilities: protocol versions below this one are refused.
MinProtocolVersion == 3

NoConn == "nullptr"
Handle == "PGconn"
NoReceiver == 0
NoTransaction == "none"
Transaction == "T"
NoError == "none"

Receivers == 1..NumReceivers

\* A receiver constructed with an empty channel name.
Unnamed == NumReceivers + 1
Handlers == 1..NumHandlers
Channels == {"", "a", "b"}
Payloads == {"p1"}

\* notification_receiver::channel(): fixed per receiver.
channel(r) ==
  IF r = Unnamed THEN "" ELSE IF r % 2 = 1 THEN "a" ELSE "b"

\* What the server may report (PQserverVersion, PQprotocolVersion).
ServerVersions == {MinServerVersion, MinServerVersion + 1}
ProtocolVersions == {0, MinProtocolVersion - 1, MinProtocolVersion}

\* The driver's answer to a command: done, rejected by the server, or the
\* connection broke.
Outcomes == {"ok", "error", "broken"}

NL == "\n"
Chars == {"a", NL}

\* The session objects of one process (the naming specification has more
\* than one).
Sessions == {"s1", "s2"}

VARIABLES
  phase,            \* "new": constructed, init() not run; "live"; "failed":
                    \* the constructor threw
  m_conn,           \* the handle, or NoConn
  m_completed,      \* activation attempted
  m_receivers,      \* channel -> receivers of the channel, in multimap order
  m_errorhandlers,  \* the handler chain, oldest first
  m_trans,          \* the registered transaction, or NoTransaction
  m_serverversion,  \* cached by read_capabilities
  status,           \* PQstatus(m_conn): "OK" or "BAD"
  noticeProc,       \* the driver's notice callback: "default" (libpq's own),
                    \* "inert", "chain", or "none" without a handle
  listening,        \* channels the server has a LISTEN for on this handle
  pending,          \* notifications buffered for this handle, oldest first
  startconnects,    \* calls of the policy's do_startconnect
  teardowns,        \* calls of the policy's do_disconnect on a handle
  simulated,        \* simulate_failure() has taken the handle away
  last,             \* the most recent call
  sent,             \* what it handed to the driver
  calls,            \* the receivers it invoked
  noticed,          \* the texts it gave to process_notice_raw (non-empty)
  seen,             \* the handlers it invoked
  msg_in,           \* the text under normalisation (notice specification)
  m_unique_id,      \* per session object: the counter of adorn_name
  adorned,          \* per session object: the names adorn_name returned,
                    \* oldest first
  added             \* channel -> its registered receivers, in the order of
                    \* their add_receiver calls

vars == <<phase, m_conn, m_completed, m_receivers, m_errorhandlers, m_trans,
          m_serverversion, status, noticeProc, listening, pending,
          startconnects, teardowns, simulated, last, sent, calls, noticed,
          seen, msg_in, m_unique_id, adorned, added>>

(***************************************************************************)
(* Helpers on sequences.                                                   *)
(***************************************************************************)
Range(s) == {s[i] : i \in 1..Len(s)}

RECURSIVE Flatten(_)
Flatten(ss) == IF ss = <<>> THEN <<>> ELSE Head(ss) \o Flatten(Tail(ss))

\* std::list::remove: every element equal to x goes.
Remove(s, x) == SelectSeq(s, LAMBDA e : e # x)

\* Position of the first x in s, 0 if absent.
IndexOf(s, x) ==
  IF \E i \in 1..Len(s) : s[i] = x
  THEN CHOOSE i \in 1..Len(s) : s[i] = x /\ \A j \in 1..(i-1) : s[j] # x
  ELSE 0

\* s without its element at position i.
RemoveAt(s, i) == SubSeq(s, 1, i-1) \o SubSeq(s, i+1, Len(s))

\* Number of newlines at the end of a text.
RECURSIVE TrailingNewlines(_)
TrailingNewlines(t) ==
  IF t = <<>> \/ t[Len(t)] # NL THEN 0
  ELSE 1 + TrailingNewlines(SubSeq(t, 1, Len(t) - 1))

Call(op, arg, open) ==
  [op |-> op, arg |-> arg, open |-> open, raised |-> NoError, ret |-> 0]

Raise(c, e) == [c EXCEPT !.raised = e]

(***************************************************************************)
(* The session's view of the handle.                                       *)
(***************************************************************************)
\* connection_base::is_open
is_open(conn, completed, st) == conn # NoConn /\ completed /\ st = "OK"

IsOpen == is_open(m_conn, m_completed, status)

\* Keys of the registry.
RegisteredChannels == {c \in Channels : m_receivers[c] # <<>>}

Registered(r) == r \in Receivers /\ r \in Range(m_receivers[channel(r)])


(***************************************************************************)
(* Notices: dispatch to the handler chain and normalisation of the text.   *)
(***************************************************************************)
\* The loop of process_notice_raw from position i of the chain downwards. A
\* handler in passes returns true (go on), any other returns false (consumed).
RECURSIVE Walk(_, _, _, _)
Walk(chain, passes, msg, i) ==
  IF i = 0 THEN <<>>
  ELSE LET h == chain[i]
           e == [handler |-> h, msg |-> msg, consumed |-> h \notin passes]
       IN  IF h \in passes THEN <<e>> \o Walk(chain, passes, msg, i - 1)
           ELSE <<e>>

\* A faulty process_notice_raw: it walks the chain from the oldest handler.
ProcessNoticeRawOldestFirst(chain, passes, msg) ==
  IF msg = <<>> THEN <<>>
  ELSE Walk([i \in 1..Len(chain) |-> chain[Len(chain) + 1 - i]], passes, msg,
            Len(chain))

\* connection_base::process_notice_raw: the handler invocations for one text.
process_notice_raw(chain, passes, msg) ==
  IF msg = <<>> THEN <<>> ELSE Walk(chain, passes, msg, Len(chain))

\* const char separator[] = "[...]\n"
Separator == <<"[", ".", ".", ".", "]", NL>>

\* size_t bytes = sizeof(buf)-sizeof(separator)-1
ChunkBytes == BufSize - (Len(Separator) + 1) - 1

\* The buffer-copying fallback of process_notice(const char[]): every chunk
\* but the last fills the buffer and carries the separator, the last one
\* gets a newline unless it has one.
RECURSIVE Chunks(_, _)
Chunks(msg, written) ==
  IF written + ChunkBytes < Len(msg)
  THEN <<SubSeq(msg, written + 1, written + ChunkBytes) \o Separator>>
         \o Chunks(msg, written + ChunkBytes)
  ELSE LET rest == SubSeq(msg, written + 1, Len(msg))
       IN  <<rest \o (IF rest[Len(rest)] = NL THEN <<>> ELSE <<NL>>)>>

\* connection_base::process_notice(const std::string &): the texts handed to
\* process_notice_raw. msg[msg.size()-1] of an empty string reads outside the
\* string: ub is the character found there. oomAppend: msg + "\n" throws.
process_notice_string(msg, ub, oomAppend) ==
  LET lastChar == IF msg = <<>> THEN ub ELSE msg[Len(msg)]
  IN  IF lastChar = NL THEN <<msg>>
      ELSE IF ~oomAppend THEN <<msg \o <<NL>>>>
      ELSE <<msg, <<NL>>>>

\* connection_base::process_notice(const char[]): the texts handed to
\* process_notice_raw. oomCopy: std::string{msg} throws.
process_notice_cstr(isNull, msg, oomCopy, oomAppend) ==
  IF isNull \/ Len(msg) = 0 THEN <<>>
  ELSE IF msg[Len(msg)] = NL THEN <<msg>>
  ELSE IF ~oomCopy THEN process_notice_string(msg, NL, oomAppend)
  ELSE Chunks(msg, 0)

\* The texts process_notice_raw does not drop.
Offered(raws) == SelectSeq(raws, LAMBDA m : m # <<>>)

\* The handler invocations for a series of texts.
Dispatch(chain, passes, raws) ==
  Flatten([i \in 1..Len(raws) |-> process_notice_raw(chain, passes, raws[i])])

\* What the handlers of the chain may answer to the notices of one call: the
\* k most recent ones pass the text on and the next one consumes it (the
\* answers of handlers further down are not read). Without a notice there is
\* nothing to answer.
Answers(chain, texts) ==
  IF Offered(texts) = <<>> THEN {{}}
  ELSE {Range(SubSeq(chain, Len(chain) - k + 1, Len(chain))) : k \in 0..Len(chain)}

\* Abbreviated diagnostic texts.
\* "Attempt to remove unknown receiver '" + channel + "'"
UnknownReceiverText(c) == <<"U", "'", c, "'">>
\* broken_connection{}.what()
BrokenText == <<"B">>
\* what() of a failure made from the driver's error message
FailureText == <<"F", NL>>
\* "Closing connection while " + description + " is still open."
ClosingTransactionText == <<"T", ".">>
\* "Closing connection with outstanding receivers."
ClosingReceiversText == <<"R", ".">>
\* "Exception in notification receiver '" + channel + "': " + what + "\n"
ReceiverExceptionText(c) == <<"X", "'", c, "'", NL>>

ErrorText(e) == IF e = "broken_connection" THEN BrokenText ELSE FailureText

(***************************************************************************)
(* The driver.                                                             *)
(***************************************************************************)
\* A command on a dead connection fails as a broken connection.
Effective(out, st) == IF st = "BAD" THEN "broken" ELSE out

StatusAfter(out, st) == IF Effective(out, st) = "broken" THEN "BAD" ELSE st

Stmt(cmd, c) == [cmd |-> cmd, channel |-> c]

Sent(call, text) == [call |-> call, text |-> text]

\* The server's subscriptions after a batch of statements.
RECURSIVE Subscriptions(_, _)
Subscriptions(lis, text) ==
  IF text = <<>> THEN lis
  ELSE LET s == Head(text)
       IN  Subscriptions(
             IF s.cmd = "LISTEN" THEN lis \cup {s.channel}
             ELSE IF s.cmd = "UNLISTEN" THEN lis \ {s.channel}
             ELSE lis,
             Tail(text))

ListeningAfter(out, st, lis, text) ==
  IF Effective(out, st) = "ok" THEN Subscriptions(lis, text)
  ELSE IF Effective(out, st) = "broken" THEN {}
  ELSE lis

(***************************************************************************)
(* Activation.                                                             *)
(***************************************************************************)
\* What the driver reports to read_capabilities: PQserverVersion and
\* PQprotocolVersion.
Reported(sv, pv) == [sv |-> sv, pv |-> pv]

\* A faulty read_capabilities: it accepts the minimum server version itself.
ReadCapabilitiesFromMinimum(sv, pv) ==
  IF sv < MinServerVersion THEN "feature_not_supported"
  ELSE IF pv = 0 THEN "broken_connection"
  ELSE IF pv < MinProtocolVersion THEN "feature_not_supported"
  ELSE NoError

\* connection_base::read_capabilities: the error it throws.
read_capabilities(sv, pv) ==
  IF sv <= MinServerVersion THEN "feature_not_supported"
  ELSE IF pv = 0 THEN "broken_connection"
  ELSE IF pv < MinProtocolVersion THEN "feature_not_supported"
  ELSE NoError

\* Iteration order of the multimap: by key.
ChannelOrder == <<"", "a", "b">>

\* The entries of the registry in iteration order.
Entries(recv) ==
  Flatten([k \in 1..Len(ChannelOrder) |->
             [i \in 1..Len(recv[ChannelOrder[k]]) |->
                [first |-> ChannelOrder[k], second |-> recv[ChannelOrder[k]][i]]]])

\* The loop of set_up_state over the registry: one LISTEN per run of equal keys.
RECURSIVE RestoreQuery(_, _)
RestoreQuery(entries, Last) ==
  IF entries = <<>> THEN <<>>
  ELSE LET i == Head(entries)
       IN  IF i.first # Last
           THEN <<Stmt("LISTEN", i.first)>> \o RestoreQuery(Tail(entries), i.first)
           ELSE RestoreQuery(Tail(entries), Last)

\* The do ... while of set_up_state: one PQgetResult per statement's result
\* and the one that returns none.
DrainResults(n) == [i \in 1..(n + 1) |-> Sent("PQgetResult", <<>>)]

\* connection_base::set_up_state on an open session.
set_up_state(st, np, lis, srv, recv, sv, pv, out) ==
  LET rc == read_capabilities(sv, pv)
      text == RestoreQuery(Entries(recv), "")
      any == Entries(recv) # <<>>
      st2 == IF any THEN StatusAfter(out, st) ELSE st
  IN  IF rc # NoError
      THEN [raised |-> rc, status |-> st, noticeProc |-> np, listening |-> lis,
            m_serverversion |-> sv, sent |-> <<>>]
      ELSE [raised |-> IF st2 = "OK" THEN NoError ELSE "broken_connection",
            status |-> st2,
            noticeProc |-> "inert",
            listening |-> IF any THEN ListeningAfter(out, st, lis, text) ELSE lis,
            m_serverversion |-> sv,
            sent |-> IF any
                     THEN <<Sent("PQsendQuery", text)>> \o DrainResults(Len(text))
                     ELSE <<>>]

\* The session and its handle as activate() and disconnect() see them.
Session(conn, completed, st, np, lis, pend, srv) ==
  [m_conn |-> conn, m_completed |-> completed, status |-> st,
   noticeProc |-> np, listening |-> lis, pending |-> pend,
   m_serverversion |-> srv, raised |-> NoError, sent |-> <<>>,
   teardowns |-> 0]

\* A faulty disconnect: the policy is called and the handle is kept.
DisconnectKeepingHandle(s) ==
  [s EXCEPT !.teardowns = @ + (IF s.m_conn # NoConn THEN 1 ELSE 0)]

\* connection_base::disconnect: the policy's do_disconnect frees the handle
\* it is given, if any, and returns none.
disconnect(s) ==
  [s EXCEPT !.m_conn = NoConn, !.status = "BAD", !.noticeProc = "none",
            !.listening = {}, !.pending = <<>>,
            !.teardowns = @ + (IF s.m_conn # NoConn THEN 1 ELSE 0)]

\* A faulty activate: it gets itself a working handle whenever it is called.
ActivateReconnecting(s, recv, sv, pv, out) ==
  [s EXCEPT !.m_conn = Handle, !.m_completed = TRUE, !.status = "OK",
            !.noticeProc = "inert"]

\* connection_base::activate.
activate(s, recv, sv, pv, out) ==
  IF s.m_completed
  THEN IF is_open(s.m_conn, s.m_completed, s.status) THEN s
       ELSE [s EXCEPT !.raised = "broken_connection"]
  ELSE LET c == [s EXCEPT !.m_completed = TRUE]
       IN  IF ~is_open(c.m_conn, TRUE, c.status)
           THEN [disconnect(c) EXCEPT !.raised = "broken_connection"]
           ELSE LET u == set_up_state(c.status, c.noticeProc, c.listening,
                                      c.m_serverversion, recv, sv, pv, out)
                    d == [c EXCEPT !.status = u.status,
                                   !.noticeProc = u.noticeProc,
                                   !.listening = u.listening,
                                   !.m_serverversion = u.m_serverversion,
                                   !.sent = u.sent,
                                   !.raised = u.raised]
                IN  IF u.raised = "broken_connection"
                    THEN [disconnect(d) EXCEPT !.raised = "broken_connection"]
                    ELSE d

ThisSession ==
  Session(m_conn, m_completed, status, noticeProc, listening, pending,
          m_serverversion)

\* The session takes the values of s; the rest of the call's record is c.
Becomes(s, c) ==
  /\ m_conn' = s.m_conn
  /\ m_completed' = s.m_completed
  /\ status' = s.status
  /\ noticeProc' = s.noticeProc
  /\ listening' = s.listening
  /\ pending' = s.pending
  /\ m_serverversion' = s.m_serverversion
  /\ teardowns' = teardowns + s.teardowns
  /\ UNCHANGED <<m_unique_id, adorned>>
  /\ sent' = s.sent
  /\ last' = Raise(c, s.raised)

(***************************************************************************)
(* Names for anonymous objects.                                            *)
(***************************************************************************)
Digit == <<"0", "1", "2", "3", "4", "5", "6", "7", "8", "9">>

\* to_string on a non-negative int: its decimal digits.
RECURSIVE to_string(_)
to_string(n) ==
  IF n < 10 THEN <<Digit[n + 1]>>
  ELSE to_string(n \div 10) \o <<Digit[(n % 10) + 1]>>

\* A faulty adorn_name: it reads the counter without advancing it.
AdornNameWithoutCounting(id, n) ==
  [m_unique_id |-> id,
   name |-> IF n = <<>> THEN <<"x">> \o to_string(id + 1)
            ELSE n \o <<"_">> \o to_string(id + 1)]

\* connection_base::adorn_name on a session whose counter is id: the new
\* counter and the name returned.
adorn_name(id, n) ==
  [m_unique_id |-> id + 1,
   name |-> IF n = <<>> THEN <<"x">> \o to_string(id + 1)
            ELSE n \o <<"_">> \o to_string(id + 1)]

\* Base names a caller may pass: none, ones that look like adorned names, a
\* plain one.
BaseNames == {<<>>, <<"x">>, <<"x", "_", "1">>, <<"x", "1">>}

\* The names a session that made k calls, all without a base name, has
\* returned.
EarlierNames(k) == [i \in 1..k |-> adorn_name(i - 1, <<>>).name]

(***************************************************************************)
(* Initial state: the object is constructed, init() has not run.           *)
(***************************************************************************)
InitNamed(ph, chain, text, ids) ==
  /\ phase = ph
  /\ m_conn = NoConn
  /\ m_completed = FALSE
  /\ m_receivers = [c \in Channels |-> <<>>]
  /\ m_errorhandlers = chain
  /\ m_trans = NoTransaction
  /\ m_serverversion = 0
  /\ status = "BAD"
  /\ noticeProc = "none"
  /\ listening = {}
  /\ pending = <<>>
  /\ startconnects = 0
  /\ teardowns = 0
  /\ simulated = FALSE
  /\ last = Call("construct", NoReceiver, FALSE)
  /\ sent = <<>>
  /\ calls = <<>>
  /\ noticed = <<>>
  /\ seen = <<>>
  /\ msg_in = text
  /\ m_unique_id = ids
  /\ adorned = [s \in Sessions |-> EarlierNames(ids[s])]
  /\ added = [c \in Channels |-> <<>>]

InitWith(ph, chain, text) == InitNamed(ph, chain, text, [s \in Sessions |-> 0])

Init == InitWith("new", <<>>, <<>>)

(***************************************************************************)
(* Construction and lifecycle.                                             *)
(***************************************************************************)
\* connection_base::init, called by the constructor of the concrete
\* connection. The policy's do_startconnect gives no handle (got = NoConn) or
\* a handle in state st; ready is the policy's is_ready. An exception leaves
\* the constructor: the object never comes to exist. (Here and below, an
\* input the call does not read takes one value only.)
init ==
  /\ phase = "new"
  /\ \E got \in {NoConn, Handle}, st \in {"OK", "BAD"}, ready \in BOOLEAN,
        sv \in ServerVersions, pv \in ProtocolVersions :
       /\ got = NoConn => (st = "BAD" /\ ~ready)
       /\ ~ready => (sv = MinServerVersion + 1 /\ pv = MinProtocolVersion)
       /\ \E s0 \in {Session(got, FALSE, st,
                              IF got = NoConn THEN "none" ELSE "default",
                              {}, <<>>, m_serverversion)} :
          \E s1 \in {IF ready THEN activate(s0, m_receivers, sv, pv, "ok")
                      ELSE s0} :
            /\ Becomes(s1, Call("init", Reported(sv, pv), FALSE))
            /\ phase' = IF s1.raised = NoError THEN "live" ELSE "failed"
  /\ startconnects' = startconnects + 1
  /\ calls' = <<>> /\ noticed' = <<>> /\ seen' = <<>>
  /\ UNCHANGED <<m_receivers, added, m_errorhandlers, m_trans, simulated, msg_in>>

\* connection_base::activate, called by the user.
activate_call ==
  /\ phase = "live"
  /\ \E sv \in ServerVersions, pv \in ProtocolVersions, out \in Outcomes :
       /\ (m_completed \/ ~is_open(m_conn, TRUE, status))
            => (sv = MinServerVersion + 1 /\ pv = MinProtocolVersion)
       /\ (m_completed \/ ~is_open(m_conn, TRUE, status)
              \/ read_capabilities(sv, pv) # NoError
              \/ Entries(m_receivers) = <<>>)
            => out = "ok"
       /\ \E s \in {activate(ThisSession, m_receivers, sv, pv, out)} :
            Becomes(s, Call("activate", Reported(sv, pv), IsOpen))
  /\ calls' = <<>> /\ noticed' = <<>> /\ seen' = <<>>
  /\ UNCHANGED <<phase, m_receivers, added, m_errorhandlers, m_trans, startconnects,
                 simulated, msg_in>>

\* connection_base::simulate_failure.
simulate_failure ==
  /\ phase = "live"
  /\ Becomes(IF m_conn # NoConn THEN disconnect(ThisSession) ELSE ThisSession,
             Call("simulate_failure", NoReceiver, IsOpen))
  /\ simulated' = (simulated \/ m_conn # NoConn)
  /\ calls' = <<>> /\ noticed' = <<>> /\ seen' = <<>>
  /\ UNCHANGED <<phase, m_receivers, added, m_errorhandlers, m_trans, startconnects,
                 msg_in>>

\* connection_base::disconnect, called directly.
disconnect_call ==
  /\ phase = "live"
  /\ Becomes(disconnect(ThisSession), Call("disconnect", NoReceiver, IsOpen))
  /\ calls' = <<>> /\ noticed' = <<>> /\ seen' = <<>>
  /\ UNCHANGED <<phase, m_receivers, added, m_errorhandlers, m_trans, startconnects,
                 simulated, msg_in>>

(***************************************************************************)
(* Results, notifications and command execution.                           *)
(***************************************************************************)
\* A faulty check_result: it looks at the session and not at the result.
CheckResultOfSessionOnly(open, out) ==
  IF ~open THEN "broken_connection" ELSE NoError

\* connection_base::check_result after a driver call that ended out, on a
\* session that is then open or not: the error it throws.
check_result(open, out) ==
  IF ~open THEN "broken_connection"
  ELSE IF out # "ok" THEN "failure"
  ELSE NoError

\* The loops of get_notifs: for each notification in arrival order, the
\* receivers in the equal range of its channel. A receiver in thr throws.
RECURSIVE Deliveries(_, _, _)
Deliveries(recv, pend, thr) ==
  IF pend = <<>> THEN <<>>
  ELSE LET N == Head(pend)
           Hit == recv[N.channel]
       IN  [i \in 1..Len(Hit) |->
              [receiver |-> Hit[i], payload |-> N.payload,
               threw |-> Hit[i] \in thr]]
           \o Deliveries(recv, Tail(pend), thr)

\* The notices of get_notifs's catch block, one for each receiver that threw.
ExceptionNotices(cs) ==
  Flatten([i \in 1..Len(cs) |->
             IF cs[i].threw
             THEN process_notice_string(
                    ReceiverExceptionText(channel(cs[i].receiver)), NL, FALSE)
             ELSE <<>>])

Outcome(raised, ret, st, lis, pend, snt, cs, texts) ==
  [raised |-> raised, ret |-> ret, status |-> st, listening |-> lis,
   pending |-> pend, sent |-> snt, calls |-> cs, texts |-> texts]

\* A faulty get_notifs: it does not look for a transaction.
GetNotifsIgnoringTransaction(conn, completed, st, lis, pend, trans, recv, ciOK, thr) ==
  IF ~is_open(conn, completed, st)
  THEN Outcome(NoError, 0, st, lis, pend, <<>>, <<>>, <<>>)
  ELSE Outcome(NoError, Len(pend), st, lis, <<>>,
               <<Sent("PQconsumeInput", <<>>)>>,
               Deliveries(recv, pend, thr), <<>>)

\* connection_base::get_notifs. ciOK: consume_input succeeds.
get_notifs(conn, completed, st, lis, pend, trans, recv, ciOK, thr) ==
  IF ~is_open(conn, completed, st)
  THEN Outcome(NoError, 0, st, lis, pend, <<>>, <<>>, <<>>)
  ELSE IF ~ciOK
  THEN Outcome("broken_connection", 0, "BAD", {}, pend,
               <<Sent("PQconsumeInput", <<>>)>>, <<>>, <<>>)
  ELSE IF trans # NoTransaction
  THEN Outcome(NoError, 0, st, lis, pend,
               <<Sent("PQconsumeInput", <<>>)>>, <<>>, <<>>)
  ELSE LET cs == Deliveries(recv, pend, thr)
       IN  Outcome(NoError, Len(pend), st, lis, <<>>,
                   <<Sent("PQconsumeInput", <<>>)>>, cs, ExceptionNotices(cs))

\* The loops of get_notifs when receiver oth throws something that is not a
\* std::exception: the catch clause does not match, the exception leaves the
\* loops, and the notification being delivered, already taken from the
\* driver, is gone.
RECURSIVE Escaping(_, _, _, _)
Escaping(recv, pend, thr, oth) ==
  IF pend = <<>> THEN [calls |-> <<>>, pending |-> <<>>, escaped |-> FALSE]
  ELSE LET N == Head(pend)
           Hit == recv[N.channel]
           k == IndexOf(Hit, oth)
       IN  IF k = 0
           THEN LET d == Escaping(recv, Tail(pend), thr, oth)
                IN  [d EXCEPT !.calls = Deliveries(recv, <<N>>, thr) \o @]
           ELSE [calls |-> Deliveries([recv EXCEPT ![N.channel] = SubSeq(Hit, 1, k)],
                                      <<N>>, thr \cup {oth}),
                 pending |-> Tail(pend),
                 escaped |-> TRUE]

\* connection_base::get_notifs with receivers that throw a std::exception
\* (thr) and one that throws something else (oth, or NoReceiver).
get_notifs_thrown(conn, completed, st, lis, pend, trans, recv, ciOK, thr, oth) ==
  LET g == get_notifs(conn, completed, st, lis, pend, trans, recv, ciOK, thr)
      d == Escaping(recv, pend, thr, oth)
  IN  IF ~is_open(conn, completed, st) \/ ~ciOK \/ trans # NoTransaction
         \/ oth = NoReceiver \/ ~d.escaped
      THEN g
      ELSE Outcome("exception", 0, st, lis, d.pending, g.sent, d.calls,
                   ExceptionNotices(SubSeq(d.calls, 1, Len(d.calls) - 1)))

\* exec, exec_params and exec_prepared: the driver call, check_result and
\* get_notifs. guarded: the function tests m_conn first (exec does, the other
\* two do not).
exec(conn, completed, st, lis, pend, trans, recv, guarded, call, text, out, ciOK, thr) ==
  IF guarded /\ conn = NoConn
  THEN Outcome("broken_connection", 0, st, lis, pend, <<>>, <<>>, <<>>)
  ELSE LET st2 == StatusAfter(out, st)
           lis2 == ListeningAfter(out, st, lis, text)
           cr == check_result(is_open(conn, completed, st2), Effective(out, st))
           g == get_notifs(conn, completed, st2, lis2, pend, trans, recv,
                           ciOK, thr)
       IN  IF cr # NoError
           THEN Outcome(cr, 0, st2, lis2, pend, <<Sent(call, text)>>,
                        <<>>, <<>>)
           ELSE [g EXCEPT !.sent = <<Sent(call, text)>> \o g.sent]

\* The receivers a drain of the pending notifications can invoke.
Invocable ==
  {r \in Receivers :
     Registered(r) /\ \E i \in 1..Len(pending) : pending[i].channel = channel(r)}

\* The session takes the driver state of outcome o; its notices go to the
\* chain. A driver function called without a handle does nothing.
Applies(o, c, passes) ==
  /\ status' = o.status
  /\ listening' = o.listening
  /\ pending' = o.pending
  /\ sent' = IF m_conn = NoConn THEN <<>> ELSE o.sent
  /\ calls' = o.calls
  /\ noticed' = Offered(o.texts)
  /\ seen' = Dispatch(m_errorhandlers, passes, o.texts)
  /\ last' = c

Query == <<Stmt("QUERY", "")>>

\* connection_base::get_notifs, called by the user.
get_notifs_call ==
  /\ phase = "live"
  /\ \E ciOK \in BOOLEAN, thr \in SUBSET Invocable,
        oth \in Invocable \cup {NoReceiver} :
       /\ ~IsOpen => ciOK
       /\ (~IsOpen \/ ~ciOK \/ m_trans # NoTransaction)
            => (thr = {} /\ oth = NoReceiver)
       /\ oth \notin thr
       /\ \E o \in {get_notifs_thrown(m_conn, m_completed, status, listening,
                                       pending, m_trans, m_receivers, ciOK,
                                       thr, oth)} :
          \E passes \in Answers(m_errorhandlers, o.texts) :
            Applies(o, [Call("get_notifs", NoReceiver, IsOpen)
                          EXCEPT !.raised = o.raised, !.ret = o.ret], passes)
  /\ UNCHANGED <<phase, m_conn, m_completed, m_receivers, added, m_errorhandlers,
                 m_trans, m_serverversion, noticeProc, startconnects, teardowns, m_unique_id, adorned,
                 simulated, msg_in>>

\* What check_result is given by a call of the exec family: how the driver
\* call ended ("none": it was not made) and whether the session is open
\* after it.
Validated(out, open) == [out |-> out, open |-> open]

\* exec (guarded), exec_params and exec_prepared (not guarded).
ExecFamily(name, call, guarded) ==
  /\ phase = "live"
  /\ \E out \in Outcomes, ciOK \in BOOLEAN, thr \in SUBSET Invocable :
       /\ (guarded /\ m_conn = NoConn) => out = "ok"
       /\ (~is_open(m_conn, m_completed, status) \/ out # "ok") => ciOK
       /\ (~is_open(m_conn, m_completed, status) \/ out # "ok" \/ ~ciOK
              \/ m_trans # NoTransaction) => thr = {}
       /\ \E o \in {exec(m_conn, m_completed, status, listening, pending,
                          m_trans, m_receivers, guarded, call, Query, out,
                          ciOK, thr)} :
          \E passes \in Answers(m_errorhandlers, o.texts) :
            Applies(o, [Call(name,
                             IF guarded /\ m_conn = NoConn
                             THEN Validated("none", FALSE)
                             ELSE Validated(Effective(out, status),
                                            is_open(m_conn, m_completed,
                                                    StatusAfter(out, status))),
                             IsOpen)
                          EXCEPT !.raised = o.raised, !.ret = o.ret], passes)
  /\ UNCHANGED <<phase, m_conn, m_completed, m_receivers, added, m_errorhandlers,
                 m_trans, m_serverversion, noticeProc, startconnects, teardowns, m_unique_id, adorned,
                 simulated, msg_in>>

\* connection_base::exec
exec_call == ExecFamily("exec", "PQexec", TRUE)

\* connection_base::exec_params
exec_params == ExecFamily("exec_params", "PQexecParams", FALSE)

\* connection_base::exec_prepared
exec_prepared == ExecFamily("exec_prepared", "PQexecPrepared", FALSE)

\* A call that only talks to the driver: o is its outcome, arg what it was
\* given.
DriverCallOn(name, arg, o) ==
  /\ Applies(o, [Call(name, arg, IsOpen)
                   EXCEPT !.raised = o.raised, !.ret = o.ret], {})
  /\ UNCHANGED <<phase, m_conn, m_completed, m_receivers, added, m_errorhandlers,
                 m_trans, m_serverversion, noticeProc, startconnects, teardowns, m_unique_id, adorned,
                 simulated, msg_in>>

DriverCall(name, o) == DriverCallOn(name, NoReceiver, o)

\* connection_base::prepare
prepare ==
  /\ phase = "live"
  /\ \E out \in Outcomes :
       DriverCall("prepare",
         IF m_conn = NoConn
         THEN Outcome("broken_connection", 0, status, listening, pending,
                      <<>>, <<>>, <<>>)
         ELSE Outcome(check_result(is_open(m_conn, m_completed,
                                           StatusAfter(out, status)),
                                   Effective(out, status)),
                      0, StatusAfter(out, status),
                      ListeningAfter(out, status, listening, Query), pending,
                      <<Sent("PQprepare", Query)>>, <<>>, <<>>))

\* connection_base::start_exec: PQsendQuery returns 0 unless the send worked.
start_exec ==
  /\ phase = "live"
  /\ \E out \in Outcomes :
       DriverCall("start_exec",
         IF m_conn = NoConn
         THEN Outcome("broken_connection", 0, status, listening, pending,
                      <<>>, <<>>, <<>>)
         ELSE Outcome(IF Effective(out, status) = "ok" THEN NoError
                      ELSE "failure",
                      0, StatusAfter(out, status),
                      ListeningAfter(out, status, listening, Query), pending,
                      <<Sent("PQsendQuery", Query)>>, <<>>, <<>>))

\* connection_base::get_result
get_result ==
  /\ phase = "live"
  /\ DriverCall("get_result",
       IF m_conn = NoConn
       THEN Outcome("broken_connection", 0, status, listening, pending,
                    <<>>, <<>>, <<>>)
       ELSE Outcome(NoError, 0, status, listening, pending,
                    <<Sent("PQgetResult", <<>>)>>, <<>>, <<>>))

(***************************************************************************)
(* Bulk transfer.                                                          *)
(***************************************************************************)
\* The lines a caller may write, a buffer of the driver may hold, or a
\* caller's string may hold from before.
CopyLines == UNION {[1..n -> Chars] : n \in 0..MaxTail}

\* What PQgetCopyData may return: failure, end of data, would block, the
\* length of a line.
GetCopyDataResults == {-2, -1, 0} \cup (1..MaxTail)

\* What PQputCopyData and PQputCopyEnd may return.
PutCopyResults == {-1, 0, 1, 2}

\* What a call of read_copy_line was given and what it left: PQgetCopyData's
\* value and buffer, and the caller's string before and after the call.
Read(rv, Buf, before, after) ==
  [rv |-> rv, buf |-> Buf, before |-> before, after |-> after]

\* A faulty read_copy_line: it empties the string only when it has a line to
\* put there.
LineKeptUnlessRead(Line, rv, Buf) ==
  IF rv \in {-2, -1, 0} THEN Line ELSE SubSeq(Buf, 1, rv)

\* The caller's string after read_copy_line on an open session: Line.erase(),
\* and Line.assign(Buf, line_len) in the default case of the switch.
LineAfterRead(Line, rv, Buf) ==
  IF rv \in {-2, -1, 0} THEN <<>> ELSE SubSeq(Buf, 1, rv)

\* connection_base::read_copy_line. rv: PQgetCopyData's value; at the end of
\* the data one result follows, which ends out, and then none.
read_copy_line ==
  /\ phase = "live"
  /\ \E rv \in GetCopyDataResults, out \in Outcomes, Buf \in CopyLines,
        Line \in CopyLines :
       /\ Len(Buf) = IF rv > 0 /\ IsOpen THEN rv ELSE 0
       /\ rv # -1 => out = "ok"
       /\ ~IsOpen => rv = -1
       /\ DriverCallOn("read_copy_line",
         Read(rv, Buf, Line,
              IF ~IsOpen THEN Line ELSE LineAfterRead(Line, rv, Buf)),
         IF ~IsOpen
         THEN Outcome("internal_error", 0, status, listening, pending,
                      <<>>, <<>>, <<>>)
         ELSE IF rv = -2
         THEN Outcome("failure", 0, status, listening, pending,
                      <<Sent("PQgetCopyData", <<>>)>>, <<>>, <<>>)
         ELSE IF rv = -1
         THEN LET st2 == StatusAfter(out, status)
                  cr == check_result(is_open(m_conn, m_completed, st2),
                                     Effective(out, status))
              IN  Outcome(cr, 0, st2,
                          IF st2 = "BAD" THEN {} ELSE listening, pending,
                          <<Sent("PQgetCopyData", <<>>),
                            Sent("PQgetResult", <<>>)>>
                            \o (IF cr = NoError
                                THEN <<Sent("PQgetResult", <<>>)>> ELSE <<>>),
                          <<>>, <<>>)
         ELSE IF rv = 0
         THEN Outcome("internal_error", 0, status, listening, pending,
                      <<Sent("PQgetCopyData", <<>>)>>, <<>>, <<>>)
         ELSE Outcome(NoError, 1, status, listening, pending,
                      <<Sent("PQgetCopyData", <<>>)>>, <<>>, <<>>))

\* A faulty line builder: it sends the line as it is.
CopyLineAsGiven(Line) == Line

\* const std::string L = Line + '\n'
CopyLine(Line) == Line \o <<NL>>

\* What a call of write_copy_line was given: the line, and PQputCopyData's
\* value.
Written(Line, rv) == [line |-> Line, rv |-> rv]

\* connection_base::write_copy_line. rv: PQputCopyData's value.
write_copy_line ==
  /\ phase = "live"
  /\ \E Line \in CopyLines, rv \in PutCopyResults :
       /\ ~IsOpen => (Line = <<>> /\ rv = 1)
       /\ DriverCallOn("write_copy_line", Written(Line, rv),
            IF ~IsOpen
            THEN Outcome("internal_error", 0, status, listening, pending,
                         <<>>, <<>>, <<>>)
            ELSE IF rv <= 0
            THEN Outcome("failure", 0, status, listening, pending,
                         <<Sent("PQputCopyData", CopyLine(Line)),
                           Sent("PQendcopy", <<>>)>>,
                         <<>>, <<>>)
            ELSE Outcome(NoError, 0, status, listening, pending,
                         <<Sent("PQputCopyData", CopyLine(Line))>>, <<>>,
                         <<>>))

\* A faulty switch: every value but the confirmation is an internal error.
PutCopyEndOnlyInternalErrors(rv) ==
  IF rv = 1 THEN NoError ELSE "internal_error"

\* The switch of end_copy_write on PQputCopyEnd's value: the error it throws.
PutCopyEndVerdict(rv) ==
  IF rv = -1 THEN "failure"
  ELSE IF rv = 0 THEN "internal_error"
  ELSE IF rv = 1 THEN NoError
  ELSE "internal_error"

\* What a call of end_copy_write met: PQputCopyEnd's value.
Ended(rv) == [rv |-> rv]

\* connection_base::end_copy_write. rv: PQputCopyEnd's value.
end_copy_write ==
  /\ phase = "live"
  /\ \E rv \in PutCopyResults, out \in Outcomes :
       DriverCallOn("end_copy_write", Ended(rv),
         IF PutCopyEndVerdict(rv) # NoError
         THEN Outcome(PutCopyEndVerdict(rv), 0, status, listening, pending,
                      <<Sent("PQputCopyEnd", <<>>)>>, <<>>, <<>>)
         ELSE LET st2 == StatusAfter(out, status)
              IN  Outcome(check_result(is_open(m_conn, m_completed, st2),
                                       Effective(out, status)),
                          0, st2, IF st2 = "BAD" THEN {} ELSE listening,
                          pending,
                          <<Sent("PQputCopyEnd", <<>>),
                            Sent("PQgetResult", <<>>)>>, <<>>, <<>>))

(***************************************************************************)
(* The receiver registry.                                                  *)
(***************************************************************************)
\* multimap::insert(p, NewVal) with p = find(channel): the new entry goes
\* right before the first entry of its channel; insert(NewVal) into an empty
\* range makes it the only one.
Insert(recv, T) == [recv EXCEPT ![channel(T)] = <<T>> \o @]

Registration(raised, st, lis, recv, snt) ==
  [raised |-> raised, status |-> st, listening |-> lis, m_receivers |-> recv,
   sent |-> snt]

\* A faulty add_receiver: it registers the receiver and never subscribes.
AddReceiverWithoutListen(conn, completed, st, lis, recv, T, out) ==
  IF T = NoReceiver
  THEN Registration("argument_error", st, lis, recv, <<>>)
  ELSE Registration(NoError, st, lis, Insert(recv, T), <<>>)

\* A faulty add_receiver: it inserts the receiver before it validates the
\* result of the LISTEN.
AddReceiverInsertingFirst(conn, completed, st, lis, recv, T, out) ==
  IF T = NoReceiver
  THEN Registration("argument_error", st, lis, recv, <<>>)
  ELSE IF recv[channel(T)] = <<>> /\ conn = NoConn
  THEN Registration("broken_connection", st, lis, recv, <<>>)
  ELSE IF recv[channel(T)] = <<>> /\ is_open(conn, completed, st)
  THEN LET LQ == <<Stmt("LISTEN", channel(T))>>
           cr == check_result(is_open(conn, completed, StatusAfter(out, st)),
                              Effective(out, st))
       IN  Registration(IF cr = "broken_connection" THEN NoError ELSE cr,
                        StatusAfter(out, st), ListeningAfter(out, st, lis, LQ),
                        Insert(recv, T), <<Sent("PQexec", LQ)>>)
  ELSE Registration(NoError, st, lis, Insert(recv, T), <<>>)

\* connection_base::add_receiver. quote_name throws without a handle.
add_receiver(conn, completed, st, lis, recv, T, out) ==
  IF T = NoReceiver
  THEN Registration("argument_error", st, lis, recv, <<>>)
  ELSE IF recv[channel(T)] = <<>>
  THEN IF conn = NoConn
       THEN Registration("broken_connection", st, lis, recv, <<>>)
       ELSE IF is_open(conn, completed, st)
       THEN LET LQ == <<Stmt("LISTEN", channel(T))>>
                st2 == StatusAfter(out, st)
                cr == check_result(is_open(conn, completed, st2),
                                   Effective(out, st))
            IN  Registration(IF cr = "broken_connection" THEN NoError ELSE cr,
                             st2, ListeningAfter(out, st, lis, LQ),
                             IF cr = "failure" THEN recv ELSE Insert(recv, T),
                             <<Sent("PQexec", LQ)>>)
       ELSE Registration(NoError, st, lis, Insert(recv, T), <<>>)
  ELSE Registration(NoError, st, lis, Insert(recv, T), <<>>)

\* A notification_receiver registers itself once, when it is constructed;
\* a null receiver can be passed at any time.
AddReceiverFrom(Ts) ==
  /\ phase = "live"
  /\ \E T \in Ts, out \in Outcomes :
       /\ \A i \in 1..Len(m_receivers[channel(T)]) :
            m_receivers[channel(T)][i] # T
       /\ (T = NoReceiver \/ ~IsOpen \/ m_receivers[channel(T)] # <<>>)
            => out = "ok"
       /\ \E a \in {add_receiver(m_conn, m_completed, status, listening,
                                  m_receivers, T, out)} :
              /\ m_receivers' = a.m_receivers
              /\ added' = IF a.m_receivers = m_receivers THEN added
                          ELSE [added EXCEPT ![channel(T)] = Append(@, T)]
              /\ status' = a.status
              /\ listening' = a.listening
              /\ sent' = a.sent
              /\ last' = Raise(Call("add_receiver", T, IsOpen), a.raised)
  /\ calls' = <<>> /\ noticed' = <<>> /\ seen' = <<>>
  /\ UNCHANGED <<phase, m_conn, m_completed, m_errorhandlers, m_trans,
                 m_serverversion, noticeProc, pending, startconnects, teardowns, m_unique_id, adorned,
                 simulated, msg_in>>

\* connection_base::add_receiver, called for a receiver with a channel name
\* the server accepts, or for none.
add_receiver_call == AddReceiverFrom(Receivers \cup {NoReceiver})

\* connection_base::add_receiver, called before activation was attempted,
\* for a receiver of any channel name.
add_receiver_early ==
  /\ ~m_completed
  /\ AddReceiverFrom(Receivers \cup {Unnamed})

\* A faulty remove_receiver: it says nothing about a receiver it cannot find.
RemoveReceiverSilently(conn, completed, st, lis, pend, trans, recv, T, out, ciOK, thr) ==
  [o |-> Outcome(NoError, 0, st, lis, pend, <<>>, <<>>, <<>>),
   m_receivers |-> IF T = NoReceiver THEN recv
                   ELSE [recv EXCEPT ![channel(T)] = Remove(@, T)]]

\* A faulty remove_receiver: it issues the UNLISTEN first and erases the
\* entry afterwards.
RemoveReceiverAfterUnlisten(conn, completed, st, lis, pend, trans, recv, T, out, ciOK, thr) ==
  IF T = NoReceiver \/ IndexOf(recv[channel(T)], T) = 0
  THEN RemoveReceiverSilently(conn, completed, st, lis, pend, trans, recv, T,
                              out, ciOK, thr)
  ELSE LET e == exec(conn, completed, st, lis, pend, trans, recv, TRUE,
                     "PQexec", <<Stmt("UNLISTEN", channel(T))>>, out, ciOK,
                     thr)
       IN  [o |-> IF conn = NoConn \/ Len(recv[channel(T)]) # 1
                  THEN Outcome(NoError, 0, st, lis, pend, <<>>, <<>>, <<>>)
                  ELSE IF e.raised # NoError
                  THEN [e EXCEPT !.raised = NoError,
                                 !.texts = e.texts \o process_notice_cstr(
                                   FALSE, ErrorText(e.raised), FALSE, FALSE)]
                  ELSE e,
            m_receivers |-> [recv EXCEPT ![channel(T)] = Remove(@, T)]]

\* connection_base::remove_receiver: the outcome and the registry.
remove_receiver(conn, completed, st, lis, pend, trans, recv, T, out, ciOK, thr) ==
  IF T = NoReceiver
  THEN [o |-> Outcome(NoError, 0, st, lis, pend, <<>>, <<>>, <<>>),
        m_receivers |-> recv]
  ELSE LET R == recv[channel(T)]
           i == IndexOf(R, T)
       IN  IF i = 0
           THEN [o |-> Outcome(NoError, 0, st, lis, pend, <<>>, <<>>,
                         process_notice_string(
                           UnknownReceiverText(channel(T)), NL, FALSE)),
                 m_receivers |-> recv]
           ELSE LET gone == conn # NoConn /\ Len(R) = 1
                    erased == [recv EXCEPT ![channel(T)] = RemoveAt(R, i)]
                    e == exec(conn, completed, st, lis, pend, trans, erased,
                              TRUE, "PQexec",
                              <<Stmt("UNLISTEN", channel(T))>>, out, ciOK, thr)
                IN  [o |-> IF ~gone
                           THEN Outcome(NoError, 0, st, lis, pend, <<>>, <<>>,
                                        <<>>)
                           ELSE IF e.raised # NoError
                           THEN [e EXCEPT
                                   !.raised = NoError,
                                   !.texts = e.texts \o process_notice_cstr(
                                     FALSE, ErrorText(e.raised), FALSE, FALSE)]
                           ELSE e,
                     m_receivers |-> erased]

remove_receiver_call ==
  /\ phase = "live"
  /\ \E T \in Receivers \cup {NoReceiver}, out \in Outcomes, ciOK \in BOOLEAN,
        thr \in SUBSET Invocable :
       /\ (~Registered(T) \/ m_conn = NoConn
              \/ Len(m_receivers[channel(T)]) # 1) => out = "ok"
       /\ (~Registered(T) \/ ~IsOpen \/ Len(m_receivers[channel(T)]) # 1
              \/ out # "ok") => ciOK
       /\ (~Registered(T) \/ ~IsOpen \/ Len(m_receivers[channel(T)]) # 1
              \/ out # "ok" \/ ~ciOK \/ m_trans # NoTransaction) => thr = {}
       /\ \E r \in {remove_receiver(m_conn, m_completed, status, listening,
                                     pending, m_trans, m_receivers, T, out,
                                     ciOK, thr)} :
          \E passes \in Answers(m_errorhandlers, r.o.texts) :
            /\ Applies(r.o, [Call("remove_receiver", T, IsOpen)
                               EXCEPT !.ret = r.o.ret], passes)
            /\ m_receivers' = r.m_receivers
            /\ added' = IF r.m_receivers = m_receivers THEN added
                        ELSE [added EXCEPT ![channel(T)] = Remove(@, T)]
  /\ UNCHANGED <<phase, m_conn, m_completed, m_errorhandlers, m_trans,
                 m_serverversion, noticeProc, startconnects, teardowns, m_unique_id, adorned, simulated,
                 msg_in>>

(***************************************************************************)
(* The handler chain.                                                      *)
(***************************************************************************)
\* connection_base::set_notice_processor: PQsetNoticeProcessor does nothing
\* without a handle.
set_notice_processor(conn, np) == IF conn = NoConn THEN np ELSE "chain"

\* connection_base::clear_notice_processor
clear_notice_processor(conn, np) == IF conn = NoConn THEN np ELSE "inert"

\* connection_base::register_errorhandler: the chain and the callback.
register_errorhandler(conn, np, chain, handler) ==
  [noticeProc |-> IF chain = <<>> THEN set_notice_processor(conn, np) ELSE np,
   m_errorhandlers |-> Append(chain, handler)]

\* A faulty unregister_errorhandler: for a handler it does not find it drops
\* the most recent one.
UnregisterErrorhandlerOrLatest(conn, np, chain, handler) ==
  [noticeProc |-> np,
   m_errorhandlers |-> IF \E i \in 1..Len(chain) : chain[i] = handler
                       THEN Remove(chain, handler)
                       ELSE SubSeq(chain, 1, Len(chain) - 1)]

\* connection_base::unregister_errorhandler: the chain and the callback.
unregister_errorhandler(conn, np, chain, handler) ==
  [noticeProc |-> IF Remove(chain, handler) = <<>>
                  THEN clear_notice_processor(conn, np) ELSE np,
   m_errorhandlers |-> Remove(chain, handler)]

\* An errorhandler registers itself once, when it is constructed.
register_errorhandler_call ==
  /\ phase = "live"
  /\ \E h \in Handlers \ Range(m_errorhandlers) :
       LET g == register_errorhandler(m_conn, noticeProc, m_errorhandlers, h)
       IN  /\ noticeProc' = g.noticeProc
           /\ m_errorhandlers' = g.m_errorhandlers
           /\ last' = Call("register_errorhandler", h, IsOpen)
  /\ sent' = <<>> /\ calls' = <<>> /\ noticed' = <<>> /\ seen' = <<>>
  /\ UNCHANGED <<phase, m_conn, m_completed, m_receivers, added, m_trans,
                 m_serverversion, status, listening, pending, startconnects, teardowns, m_unique_id, adorned,
                 simulated, msg_in>>

unregister_errorhandler_call ==
  /\ phase = "live"
  /\ \E h \in Handlers :
       LET g == unregister_errorhandler(m_conn, noticeProc, m_errorhandlers, h)
       IN  /\ noticeProc' = g.noticeProc
           /\ m_errorhandlers' = g.m_errorhandlers
           /\ last' = Call("unregister_errorhandler", h, IsOpen)
  /\ sent' = <<>> /\ calls' = <<>> /\ noticed' = <<>> /\ seen' = <<>>
  /\ UNCHANGED <<phase, m_conn, m_completed, m_receivers, added, m_trans,
                 m_serverversion, status, listening, pending, startconnects, teardowns, m_unique_id, adorned,
                 simulated, msg_in>>

(***************************************************************************)
(* The guest transaction.                                                  *)
(***************************************************************************)
\* what() of the error unregister_guest throws for a transaction that is not
\* the registered one
NotRegisteredText == <<"G">>

\* connection_base::register_transaction: a second guest is refused.
register_transaction ==
  /\ phase = "live"
  /\ m_trans' = IF m_trans = NoTransaction THEN Transaction ELSE m_trans
  /\ last' = Raise(Call("register_transaction", NoReceiver, IsOpen),
                   IF m_trans = NoTransaction THEN NoError ELSE "usage_error")
  /\ sent' = <<>> /\ calls' = <<>> /\ noticed' = <<>> /\ seen' = <<>>
  /\ UNCHANGED <<phase, m_conn, m_completed, m_receivers, added, m_errorhandlers,
                 m_serverversion, status, noticeProc, listening, pending,
                 startconnects, teardowns, m_unique_id, adorned, simulated, msg_in>>

\* connection_base::unregister_transaction: an error becomes a notice.
unregister_transaction ==
  /\ phase = "live"
  /\ \E texts \in {IF m_trans = NoTransaction
                     THEN process_notice_cstr(FALSE, NotRegisteredText, FALSE,
                                              FALSE)
                     ELSE <<>>} :
       \E passes \in Answers(m_errorhandlers, texts) :
         /\ noticed' = Offered(texts)
         /\ seen' = Dispatch(m_errorhandlers, passes, texts)
  /\ m_trans' = NoTransaction
  /\ last' = Call("unregister_transaction", NoReceiver, IsOpen)
  /\ sent' = <<>> /\ calls' = <<>>
  /\ UNCHANGED <<phase, m_conn, m_completed, m_receivers, added, m_errorhandlers,
                 m_serverversion, status, noticeProc, listening, pending,
                 startconnects, teardowns, m_unique_id, adorned, simulated, msg_in>>

(***************************************************************************)
(* close.                                                                  *)
(***************************************************************************)
\* The notices of close, in the order it emits them.
ClosingNotices(trans, recv) ==
  (IF trans # NoTransaction
   THEN process_notice_string(ClosingTransactionText, NL, FALSE) ELSE <<>>)
  \o (IF Entries(recv) # <<>>
      THEN process_notice_cstr(FALSE, ClosingReceiversText, FALSE, FALSE)
      ELSE <<>>)

\* One step of close: what it does, the texts it hands to process_notice_raw
\* and the chain they are dispatched to, or the handler it unregisters.
Step(name, texts, chain, handler) ==
  [step |-> name, texts |-> texts, chain |-> chain, handler |-> handler]

\* The unregistrations of close's loop over old_handlers, from crbegin to
\* crend.
Unregistrations(old_handlers) ==
  [i \in 1..Len(old_handlers) |->
     Step("unregister", <<>>, <<>>, old_handlers[Len(old_handlers) + 1 - i])]

\* A faulty close: it takes the chain away and unregisters the handlers
\* before it emits its notices.
CloseStepsUnregisteringFirst(trans, recv, chain) ==
  <<Step("m_errorhandlers.swap", <<>>, <<>>, 0)>>
  \o Unregistrations(chain)
  \o (IF trans # NoTransaction
      THEN <<Step("process_notice",
                  process_notice_string(ClosingTransactionText, NL, FALSE),
                  <<>>, 0)>>
      ELSE <<>>)
  \o (IF Entries(recv) # <<>>
      THEN <<Step("process_notice",
                  process_notice_cstr(FALSE, ClosingReceiversText, FALSE, FALSE),
                  <<>>, 0),
             Step("m_receivers.clear", <<>>, <<>>, 0)>>
      ELSE <<>>)
  \o <<Step("do_disconnect", <<>>, <<>>, 0)>>

\* The steps of close, in the order it takes them. A notice goes to the
\* chain as it is at that step.
CloseSteps(trans, recv, chain) ==
  (IF trans # NoTransaction
   THEN <<Step("process_notice",
               process_notice_string(ClosingTransactionText, NL, FALSE),
               chain, 0)>>
   ELSE <<>>)
  \o (IF Entries(recv) # <<>>
      THEN <<Step("process_notice",
                  process_notice_cstr(FALSE, ClosingReceiversText, FALSE, FALSE),
                  chain, 0),
             Step("m_receivers.clear", <<>>, <<>>, 0)>>
      ELSE <<>>)
  \o <<Step("m_errorhandlers.swap", <<>>, <<>>, 0)>>
  \o Unregistrations(chain)
  \o <<Step("do_disconnect", <<>>, <<>>, 0)>>

\* The texts the steps hand to process_notice_raw, and the handler
\* invocations that follow.
StepTexts(steps) == Flatten([i \in 1..Len(steps) |-> steps[i].texts])

StepDispatch(steps, passes) ==
  Flatten([i \in 1..Len(steps) |->
             Dispatch(steps[i].chain, passes, steps[i].texts)])

\* A faulty close: it leaves the receivers in the registry.
CloseKeepingReceivers ==
  /\ phase = "live"
  /\ \E texts \in {ClosingNotices(m_trans, m_receivers)} :
       \E passes \in Answers(m_errorhandlers, texts) :
         /\ noticed' = Offered(texts)
         /\ seen' = Dispatch(m_errorhandlers, passes, texts)
  /\ m_errorhandlers' = <<>>
  /\ Becomes(disconnect(ThisSession), Call("close", NoReceiver, IsOpen))
  /\ calls' = <<>>
  /\ UNCHANGED <<phase, m_receivers, added, m_trans, startconnects, simulated,
                 msg_in>>

\* connection_base::close
close ==
  /\ phase = "live"
  /\ \E steps \in {CloseSteps(m_trans, m_receivers, m_errorhandlers)} :
       /\ \E passes \in Answers(m_errorhandlers, StepTexts(steps)) :
            /\ noticed' = Offered(StepTexts(steps))
            /\ seen' = StepDispatch(steps, passes)
       /\ Becomes(disconnect(ThisSession), Call("close", steps, IsOpen))
  /\ m_receivers' = [c \in Channels |-> <<>>]
  /\ added' = [c \in Channels |-> <<>>]
  /\ m_errorhandlers' = <<>>
  /\ calls' = <<>>
  /\ UNCHANGED <<phase, m_trans, startconnects, simulated, msg_in>>

(***************************************************************************)
(* The peer and the driver acting on their own.                            *)
(***************************************************************************)
\* Nothing of the session changes; the record of the last call is reset.
Event(name) ==
  /\ last' = Call(name, NoReceiver, IsOpen)
  /\ sent' = <<>> /\ calls' = <<>>
  /\ UNCHANGED <<phase, m_conn, m_completed, m_receivers, added, m_errorhandlers,
                 m_trans, m_serverversion, startconnects, teardowns, m_unique_id, adorned, simulated, msg_in>>

\* The peer NOTIFYs a channel this handle listens to.
peer_notify ==
  /\ m_conn # NoConn /\ status = "OK"
  /\ Len(pending) < MaxPending
  /\ \E c \in listening, p \in Payloads :
       pending' = Append(pending, [channel |-> c, payload |-> p])
  /\ noticed' = <<>> /\ seen' = <<>>
  /\ Event("peer_notify")
  /\ UNCHANGED <<status, noticeProc, listening>>

\* The connection to the server is lost.
connection_lost ==
  /\ m_conn # NoConn /\ status = "OK"
  /\ status' = "BAD"
  /\ listening' = {}
  /\ noticed' = <<>> /\ seen' = <<>>
  /\ Event("connection_lost")
  /\ UNCHANGED <<noticeProc, pending>>

\* Texts of the server's own notices.
ServerNotices == {<<"N", NL>>, <<"N">>}

\* The driver has a notice and calls its notice callback:
\* pqxx_notice_processor, inert_notice_processor or libpq's own.
driver_notice ==
  /\ m_conn # NoConn
  /\ \E msg \in ServerNotices :
       \E texts \in {IF noticeProc = "chain"
                      THEN process_notice_cstr(FALSE, msg, FALSE, FALSE)
                      ELSE <<>>} :
       \E passes \in Answers(m_errorhandlers, texts) :
         /\ noticed' = Offered(texts)
         /\ seen' = Dispatch(m_errorhandlers, passes, texts)
  /\ Event("driver_notice")
  /\ UNCHANGED <<status, noticeProc, listening, pending>>

(***************************************************************************)
(* process_notice called on its own, on any text.                          *)
(***************************************************************************)
Fill(n) == [i \in 1..n |-> "a"]

\* Texts: a run of letters of a length around a multiple of the chunk size,
\* then a few free characters.
NoticeLengths ==
  {n \in {k * ChunkBytes + d : k \in 0..MaxChunks, d \in (0 - MaxSlack)..MaxSlack} :
     n >= 0}

NoticeTails == UNION {[1..n -> Chars] : n \in 0..MaxTail}

NoticeTexts == {Fill(n) \o t : n \in NoticeLengths, t \in NoticeTails}

InitNotices ==
  \E n \in 0..NumHandlers, text \in NoticeTexts :
    InitWith("live", [i \in 1..n |-> i], text)

NoticeCall(name, flags, texts, passes) ==
  /\ noticed' = Offered(texts)
  /\ seen' = Dispatch(m_errorhandlers, passes, texts)
  /\ last' = Call(name, flags, FALSE)
  /\ sent' = <<>> /\ calls' = <<>>
  /\ UNCHANGED <<phase, m_conn, m_completed, m_receivers, added, m_errorhandlers,
                 m_trans, m_serverversion, status, noticeProc, listening,
                 pending, startconnects, teardowns, m_unique_id, adorned, simulated, msg_in>>

Flags(isNull, oomCopy, oomAppend) ==
  [isNull |-> isNull, oomCopy |-> oomCopy, oomAppend |-> oomAppend]

\* process_notice(const char[]) on msg_in, or on a null pointer.
process_notice_cstr_call ==
  /\ phase = "live"
  /\ \E isNull \in BOOLEAN, oomCopy \in BOOLEAN, oomAppend \in BOOLEAN :
       /\ (isNull \/ msg_in = <<>> \/ msg_in[Len(msg_in)] = NL)
            => (~oomCopy /\ ~oomAppend)
       /\ oomCopy => ~oomAppend
       /\ \E texts \in {process_notice_cstr(isNull, msg_in, oomCopy, oomAppend)} :
          \E passes \in Answers(m_errorhandlers, texts) :
            NoticeCall("process_notice(const char[])",
                       Flags(isNull, oomCopy, oomAppend), texts, passes)

\* process_notice(const std::string &) on msg_in.
process_notice_string_call ==
  /\ phase = "live"
  /\ \E ub \in Chars, oomAppend \in BOOLEAN :
       /\ msg_in # <<>> => ub = NL
       /\ (IF msg_in = <<>> THEN ub ELSE msg_in[Len(msg_in)]) = NL => ~oomAppend
       /\ \E texts \in {process_notice_string(msg_in, ub, oomAppend)} :
          \E passes \in Answers(m_errorhandlers, texts) :
            NoticeCall("process_notice(const std::string &)",
                       Flags(FALSE, FALSE, oomAppend), texts, passes)

NextNotices ==
  \/ process_notice_cstr_call
  \/ process_notice_string_call

Notices == InitNotices /\ [][NextNotices]_vars

(***************************************************************************)
(* adorn_name on the session objects of one process.                       *)
(***************************************************************************)
\* Each session object is fresh or has EarlierCalls calls behind it.
InitNaming ==
  \E ids \in [Sessions -> {0, EarlierCalls}] : InitNamed("live", <<>>, <<>>, ids)

Named(s, n) == [session |-> s, n |-> n]

\* The calls of adorn_name followed on session object s.
Followed(s) ==
  IF Len(adorned[s]) >= EarlierCalls THEN Len(adorned[s]) - EarlierCalls
  ELSE Len(adorned[s])

\* connection_base::adorn_name, called on session object s with base name n.
adorn_name_call ==
  /\ phase = "live"
  /\ \E s \in Sessions, n \in BaseNames :
       /\ Followed(s) < MaxNames
       /\ \E r \in {adorn_name(m_unique_id[s], n)} :
            /\ m_unique_id' = [m_unique_id EXCEPT ![s] = r.m_unique_id]
            /\ adorned' = [adorned EXCEPT ![s] = Append(@, r.name)]
       /\ last' = Call("adorn_name", Named(s, n), FALSE)
  /\ sent' = <<>> /\ calls' = <<>> /\ noticed' = <<>> /\ seen' = <<>>
  /\ UNCHANGED <<phase, m_conn, m_completed, m_receivers, added, m_errorhandlers,
                 m_trans, m_serverversion, status, noticeProc, listening,
                 pending, startconnects, teardowns, simulated, msg_in>>

NextNaming ==
  \/ adorn_name_call

Naming == InitNaming /\ [][NextNaming]_vars

(***************************************************************************)
(* Receivers registered before activation, and the activation that has to  *)
(* subscribe them.                                                         *)
(***************************************************************************)
NextRestoring ==
  \/ init
  \/ add_receiver_early
  \/ activate_call

Restoring == Init /\ [][NextRestoring]_vars

\* The session with its registry, its transaction, the notifications and exec
\* as the one command; no handler is registered.
Next ==
  \/ init
  \/ activate_call
  \/ simulate_failure
  \/ disconnect_call
  \/ close
  \/ add_receiver_call
  \/ remove_receiver_call
  \/ register_transaction
  \/ unregister_transaction
  \/ get_notifs_call
  \/ exec_call
  \/ peer_notify
  \/ connection_lost

Spec == Init /\ [][Next]_vars

\* The session with its handler chain, its transaction and the driver's
\* notices; no receiver is registered.
NextHandling ==
  \/ init
  \/ activate_call
  \/ simulate_failure
  \/ close
  \/ register_errorhandler_call
  \/ unregister_errorhandler_call
  \/ register_transaction
  \/ unregister_transaction
  \/ connection_lost
  \/ driver_notice

Handling == Init /\ [][NextHandling]_vars

\* The session with everything close() has to deal with: a handle or none,
\* receivers, handlers, a transaction.
NextClosing ==
  \/ init
  \/ activate_call
  \/ simulate_failure
  \/ close
  \/ add_receiver_call
  \/ register_errorhandler_call
  \/ unregister_errorhandler_call
  \/ register_transaction
  \/ unregister_transaction
  \/ connection_lost

Closing == Init /\ [][NextClosing]_vars

\* The session with every command and the bulk transfer; no receiver and no
\* handler is registered.
NextCommands ==
  \/ init
  \/ activate_call
  \/ simulate_failure
  \/ close
  \/ register_transaction
  \/ unregister_transaction
  \/ exec_call
  \/ exec_params
  \/ exec_prepared
  \/ prepare
  \/ start_exec
  \/ get_result
  \/ read_copy_line
  \/ write_copy_line
  \/ end_copy_write
  \/ connection_lost

Commands == Init /\ [][NextCommands]_vars


(***************************************************************************)
(* Properties.                                                             *)
(***************************************************************************)
Listens(snt) ==
  {i \in 1..Len(snt) :
     snt[i].call = "PQexec" /\ snt[i].text # <<>>
       /\ snt[i].text[1].cmd = "LISTEN"}

Unlistens(snt) ==
  {i \in 1..Len(snt) :
     snt[i].call = "PQexec" /\ snt[i].text # <<>>
       /\ snt[i].text[1].cmd = "UNLISTEN"}

RegistryOps == {"add_receiver", "remove_receiver"}

C1_Step ==
  last'.op \in RegistryOps =>
    LET T == last'.arg
        c == channel(T)
        first == last'.op = "add_receiver" /\ T # NoReceiver
                   /\ m_receivers[c] = <<>>
        only == last'.op = "remove_receiver" /\ T # NoReceiver
                   /\ m_receivers[c] = <<T>>
    IN  /\ (Listens(sent') # {}) = (first /\ IsOpen)
        /\ (Unlistens(sent') # {}) = (only /\ m_conn # NoConn)
        /\ \A i \in Listens(sent') \cup Unlistens(sent') :
             sent'[i].text = <<Stmt(sent'[i].text[1].cmd, c)>>
        /\ (first /\ ~IsOpen /\ m_conn # NoConn)
             => (T \in Range(m_receivers'[c]) /\ listening' = listening)
        /\ (/\ IsOpen /\ IsOpen'
            /\ last'.raised = NoError
            /\ \A i \in 1..Len(noticed') : noticed'[i] # FailureText
            /\ listening = RegisteredChannels)
             => listening' = RegisteredChannels'

C2_ActivateOnceNoReconnect ==
  [][/\ (last'.op = "activate" /\ m_completed /\ IsOpen)
          => /\ last'.raised = NoError
             /\ sent' = <<>>
             /\ UNCHANGED <<m_conn, m_completed, m_receivers, m_errorhandlers,
                            m_trans, m_serverversion, status, noticeProc,
                            listening, pending, startconnects>>
     /\ (last'.op = "activate" /\ simulated)
          => last'.raised = "broken_connection"
     /\ simulated
          => (m_conn' = NoConn /\ ~IsOpen' /\ startconnects' = startconnects
                /\ simulated')]_vars

\* activate() has been called after simulate_failure() took the handle of an
\* activated session that has receivers to restore.
C2_Witness ==
  /\ simulated
  /\ last.op = "activate"
  /\ last.raised = "broken_connection"
  /\ m_completed
  /\ m_conn = NoConn
  /\ RegisteredChannels # {}
  /\ startconnects = 1

C4_MostRecentFirstUntilConsumed ==
  [][LET chain == m_errorhandlers
         n == Len(seen')
         top == chain[Len(chain)]
         pos(h) == IndexOf(chain, h)
         starts == {i \in 1..n : i = 1 \/ seen'[i-1].consumed
                                   \/ pos(seen'[i-1].handler) = 1}
     IN  /\ \A i \in 1..n : seen'[i].handler \in Range(chain)
         /\ chain # <<>> => Cardinality(starts) = Len(noticed')
         /\ chain = <<>> => n = 0
         /\ \A i \in starts :
              /\ seen'[i].handler = top
              /\ seen'[i].msg = noticed'[Cardinality({j \in starts : j <= i})]
         /\ \A i \in (1..n) \ starts :
              /\ seen'[i].handler = chain[pos(seen'[i-1].handler) - 1]
              /\ seen'[i].msg = seen'[i-1].msg
         /\ n > 0 => (seen'[n].consumed \/ pos(seen'[n].handler) = 1)]_vars

\* With two handlers registered, the newer one got a notice of the driver
\* and consumed it; the older one was not called.
C4_Witness ==
  /\ last.op = "driver_notice"
  /\ Len(m_errorhandlers) = 2
  /\ Len(seen) = 1
  /\ seen[1].consumed
  /\ seen[1].handler = m_errorhandlers[2]

\* C5 as stated: whenever the session holds a handle that it has put a
\* notice callback on, the callback is the inert one exactly when the chain
\* is empty and the chain-routing one exactly when it is not.
C5_CallbackFollowsChain ==
  (m_conn # NoConn /\ noticeProc # "default") =>
    /\ (noticeProc = "inert") = (m_errorhandlers = <<>>)
    /\ (noticeProc = "chain") = (m_errorhandlers # <<>>)

CommandOps ==
  {"exec", "exec_params", "exec_prepared", "prepare", "start_exec",
   "read_copy_line", "write_copy_line", "end_copy_write"}

\* C6 as stated: a command operation called on a session that is not open
\* hands nothing to the driver and raises.
C6_NoCommandUnlessOpen ==
  (last.op \in CommandOps /\ ~last.open) =>
    (sent = <<>> /\ last.raised # NoError)

\* The receiver invocations that deliver pend, oldest notification first.
C7_InArrivalOrder(pend, recv) ==
  Flatten([i \in 1..Len(pend) |->
             [j \in 1..Len(recv[pend[i].channel]) |->
                [receiver |-> recv[pend[i].channel][j],
                 payload |-> pend[i].payload]]])

C8_UnknownReceiverOnlyNoticed ==
  [][(last'.op = "remove_receiver" /\ last'.arg # NoReceiver
        /\ ~Registered(last'.arg)) =>
       /\ last'.raised = NoError
       /\ sent' = <<>>
       /\ calls' = <<>>
       /\ noticed' = <<UnknownReceiverText(channel(last'.arg)) \o <<NL>>>>
       /\ UNCHANGED <<m_conn, m_completed, m_receivers, m_errorhandlers,
                      m_trans, status, noticeProc, listening, pending>>]_vars

\* remove_receiver(r) was called for an r that is not registered while
\* another receiver of r's channel is, on an open session that is
\* subscribed to the channel.
C8_Witness ==
  /\ last.op = "remove_receiver"
  /\ last.arg # NoReceiver
  /\ ~Registered(last.arg)
  /\ m_receivers[channel(last.arg)] # <<>>
  /\ IsOpen
  /\ channel(last.arg) \in listening
  /\ noticed # <<>>

\* C9 as stated: add_receiver(r) never raises broken_connection, and on a
\* session that is not open it returns normally with r in the registry.
C9_AddReceiverToleratesNoConnection ==
  (last.op = "add_receiver" /\ last.arg # NoReceiver) =>
    /\ last.raised # "broken_connection"
    /\ ~last.open => (last.raised = NoError /\ Registered(last.arg))

NoticeOps ==
  {"process_notice(const char[])", "process_notice(const std::string &)"}

\* C10 as stated: every text a handler gets ends in exactly one newline, and
\* a null or empty message reaches no handler.
C10_ExactlyOneNewline ==
  last.op \in NoticeOps =>
    /\ \A i \in 1..Len(seen) : TrailingNewlines(seen[i].msg) = 1
    /\ (last.arg.isNull \/ msg_in = <<>>) => seen = <<>>

\* C11: write_copy_line(text) on an open session hands the driver text and
\* one more line terminator, which is the only one at its end when text does
\* not end in one; when the driver's send result is not positive, the
\* stream abort (PQendcopy) follows the send and the call raises a failure;
\* when it is positive, nothing follows and nothing is raised.
C11_LineTerminatedAbortBeforeFailure ==
  (last.op = "write_copy_line" /\ last.open) =>
    /\ sent # <<>>
    /\ sent[1].call = "PQputCopyData"
    /\ sent[1].text = last.arg.line \o <<NL>>
    /\ TrailingNewlines(last.arg.line) = 0
         => TrailingNewlines(sent[1].text) = 1
    /\ IF last.arg.rv <= 0
       THEN /\ Len(sent) = 2 /\ sent[2].call = "PQendcopy"
            /\ last.raised = "failure"
       ELSE Len(sent) = 1 /\ last.raised = NoError

\* A line without a terminator was written on an open session and the
\* driver reported that the send failed.
C11_Witness ==
  /\ last.op = "write_copy_line"
  /\ last.open
  /\ last.arg.line # <<>>
  /\ TrailingNewlines(last.arg.line) = 0
  /\ last.arg.rv = 0
  /\ last.raised = "failure"

ExecOps == {"exec", "exec_params", "exec_prepared"}

\* C12: exec, exec_params and exec_prepared return (a result) only when,
\* after the driver call, the session is open and the driver call ended
\* well; when the session is not open they raise broken_connection, and
\* when it is open and the result is missing or bad they raise a failure.
C12_NoResultWithoutValidation ==
  last.op \in ExecOps =>
    /\ last.raised = NoError
         => (last.arg.open /\ last.arg.out = "ok" /\ sent # <<>>)
    /\ ~last.arg.open => last.raised = "broken_connection"
    /\ (last.arg.open /\ last.arg.out # "ok") => last.raised = "failure"

\* exec_params ran on an open session, the server rejected the command and
\* the session stayed open.
C12_Witness ==
  /\ last.op = "exec_params"
  /\ last.open /\ last.arg.open
  /\ last.arg.out = "error"
  /\ last.raised = "failure"
  /\ IsOpen

\* The call asked the driver for a result.
Retrieved == \E i \in 1..Len(sent) : sent[i].call = "PQgetResult"

\* C13 as stated: end_copy_write() retrieves the final result only when
\* PQputCopyEnd returns the confirmation value; for every other value it
\* raises an internal error and retrieves nothing.
C13_OnlyConfirmationElseInternalError ==
  last.op = "end_copy_write" =>
    IF last.arg.rv = 1
    THEN m_conn # NoConn => Retrieved
    ELSE last.raised = "internal_error" /\ ~Retrieved

\* C13, amended: end_copy_write() retrieves and validates the final result
\* only when PQputCopyEnd returns the confirmation value; for the driver's
\* error value it raises a failure, for every other value (the would-block
\* value included) an internal error, and in both cases it retrieves no
\* result.
C13_ConfirmationElseFailureOrInternalError ==
  last.op = "end_copy_write" =>
    IF last.arg.rv = 1
    THEN /\ m_conn # NoConn
              => sent = <<Sent("PQputCopyEnd", <<>>), Sent("PQgetResult", <<>>)>>
         /\ last.raised \in {NoError, "failure", "broken_connection"}
         /\ last.raised = NoError => IsOpen
    ELSE /\ ~Retrieved
         /\ last.raised = IF last.arg.rv = -1 THEN "failure"
                           ELSE "internal_error"

\* end_copy_write() ran on an open session and the driver returned its
\* error value.
C13_Witness ==
  /\ last.op = "end_copy_write"
  /\ last.open
  /\ last.arg.rv = -1
  /\ last.raised = "failure"
  /\ sent = <<Sent("PQputCopyEnd", <<>>)>>

TeardownOps == {"close", "disconnect", "simulate_failure"}

C15_Absent ==
  /\ last'.op = "unregister_errorhandler"
  /\ \A i \in 1..Len(m_errorhandlers) : m_errorhandlers[i] # last'.arg

\* C15 as stated: unregister_errorhandler(h) for an h that is not in the
\* chain does not raise and leaves the chain and the driver's notice
\* callback as they were.
C15_AbsentHandlerChangesNothing ==
  [][C15_Absent =>
       /\ last'.raised = NoError
       /\ m_errorhandlers' = m_errorhandlers
       /\ noticeProc' = noticeProc]_vars

\* C15, amended: unregister_errorhandler(h) for an h that is not in the
\* chain does not raise, sends nothing and leaves the chain as it was; it
\* leaves the notice callback as it was too, unless the chain is empty and
\* the handle still has the driver's default callback, which the call then
\* replaces by the inert one. A second call with the same handler right
\* after the first changes nothing at all.
C15_AbsentHandlerKeepsChain ==
  [][/\ C15_Absent =>
          /\ last'.raised = NoError
          /\ sent' = <<>>
          /\ m_errorhandlers' = m_errorhandlers
          /\ noticeProc' = IF m_errorhandlers = <<>> /\ noticeProc = "default"
                           THEN "inert" ELSE noticeProc
          /\ UNCHANGED <<m_conn, m_completed, status, m_receivers, m_trans>>
     /\ (last.op = "unregister_errorhandler" /\ last' = last)
          => UNCHANGED <<m_errorhandlers, noticeProc>>]_vars

\* unregister_errorhandler(h) was called for an h that is not in the chain
\* while another handler is, on a session with a handle.
C15_Witness ==
  /\ last.op = "unregister_errorhandler"
  /\ \A i \in 1..Len(m_errorhandlers) : m_errorhandlers[i] # last.arg
  /\ m_errorhandlers # <<>>
  /\ m_conn # NoConn
  /\ noticeProc = "chain"

IsDigit(c) == \E d \in 1..Len(Digit) : Digit[d] = c

DigitValue(c) == (CHOOSE d \in 1..Len(Digit) : Digit[d] = c) - 1

\* The number of digits at the end of a name.
RECURSIVE TrailingDigits(_)
TrailingDigits(t) ==
  IF t = <<>> \/ ~IsDigit(t[Len(t)]) THEN 0
  ELSE 1 + TrailingDigits(SubSeq(t, 1, Len(t) - 1))

\* The number a run of digits denotes.
RECURSIVE Denotes(_)
Denotes(t) ==
  IF t = <<>> THEN 0
  ELSE 10 * Denotes(SubSeq(t, 1, Len(t) - 1)) + DigitValue(t[Len(t)])

\* The numeric suffix of a name.
Suffix(t) == Denotes(SubSeq(t, Len(t) - TrailingDigits(t) + 1, Len(t)))

\* C16: a call of adorn_name on a session returns one more name, whose
\* numeric suffix is greater than the suffix of every name the session
\* returned before and which differs from every such name, whatever the base
\* names were; the counters and the names of the other sessions stay as they
\* are.
C16_SuffixGrowsPerSession ==
  [][last'.op = "adorn_name" =>
       \E s \in {last'.arg.session} :
         /\ Len(adorned'[s]) = Len(adorned[s]) + 1
         /\ SubSeq(adorned'[s], 1, Len(adorned[s])) = adorned[s]
         /\ \A i \in 1..Len(adorned[s]) :
              /\ Suffix(adorned[s][i]) < Suffix(adorned'[s][Len(adorned'[s])])
              /\ adorned[s][i] # adorned'[s][Len(adorned'[s])]
         /\ \A t \in Sessions \ {s} :
              m_unique_id'[t] = m_unique_id[t] /\ adorned'[t] = adorned[t]]_vars

\* A session with earlier calls behind it has been called twice more, with
\* different base names and reaching a two-digit suffix, and between its
\* calls stands a first call on another session.
C16_Witness ==
  /\ last.op = "adorn_name"
  /\ \E s \in Sessions, t \in Sessions :
       /\ s # t
       /\ last.arg.session = s
       /\ Len(adorned[s]) = EarlierCalls + 2
       /\ Suffix(adorned[s][Len(adorned[s])]) >= 10
       /\ adorned[s][Len(adorned[s])][1] = "x"
       /\ adorned[s][Len(adorned[s]) - 1] = <<"x">> \o to_string(EarlierCalls + 1)
       /\ Len(adorned[s][Len(adorned[s])]) > 3
       /\ Len(adorned[t]) = 1

\* The call handed an UNLISTEN for channel c to the driver.
Unlistened(snt, c) ==
  \E i \in 1..Len(snt) : snt[i] = Sent("PQexec", <<Stmt("UNLISTEN", c)>>)

\* C17: remove_receiver(r) for a registered r erases r's entry and invokes
\* r for none of the notifications its UNLISTEN drains; the UNLISTEN is the
\* first thing handed to the driver and is issued exactly when the session
\* holds a handle and r was the only receiver of its channel; nothing is
\* raised, and when the UNLISTEN fails (nothing follows it on the driver)
\* the error's text is given to the handlers as a notice and r stays
\* erased.
C17_ErasedBeforeUnlisten ==
  [][(last'.op = "remove_receiver" /\ Registered(last'.arg)) =>
       \E c \in {channel(last'.arg)} :
         /\ m_receivers' = [m_receivers EXCEPT ![c] = Remove(@, last'.arg)]
         /\ \A i \in 1..Len(calls') : calls'[i].receiver # last'.arg
         /\ Unlistened(sent', c)
              <=> (m_conn # NoConn /\ m_receivers[c] = <<last'.arg>>)
         /\ Unlistened(sent', c) =>
              sent'[1] = Sent("PQexec", <<Stmt("UNLISTEN", c)>>)
         /\ ~Unlistened(sent', c) => (sent' = <<>> /\ calls' = <<>>)
         /\ last'.raised = NoError
         /\ (Unlistened(sent', c) /\ Len(sent') = 1) =>
              /\ calls' = <<>>
              /\ \E e \in {"broken_connection", "failure"} :
                   noticed' = Offered(process_notice_cstr(
                                        FALSE, ErrorText(e), FALSE, FALSE))]_vars

\* remove_receiver took the only receiver of a channel out of the registry,
\* its UNLISTEN went through, and the drain that followed consumed pending
\* notifications without invoking anyone on that channel.
C17_Witness ==
  /\ last.op = "remove_receiver"
  /\ last.arg \in Receivers
  /\ m_receivers[channel(last.arg)] = <<>>
  /\ Unlistened(sent, channel(last.arg))
  /\ Len(sent) = 2
  /\ last.ret = MaxPending
  /\ pending = <<>>
  /\ \A i \in 1..Len(calls) : channel(calls[i].receiver) # channel(last.arg)
  /\ channel(last.arg) \notin listening

\* The positions of the steps of one kind.
StepsOf(steps, name) == {i \in 1..Len(steps) : steps[i].step = name}

\* C18: close() emits the transaction notice (if a transaction is
\* registered), then the receivers notice followed at once by the clearing
\* of the registry (if receivers remain), then unregisters every handler,
\* most recently registered first, then releases the handle, once and last.
\* Every notice is dispatched to the chain as it was when close() was
\* called, starting with its most recent handler, and no handler is
\* unregistered before the last notice.
C18_NoticesThenHandlersThenHandle ==
  [][last'.op = "close" =>
       \E S \in {last'.arg} :
         /\ \A i \in StepsOf(S, "process_notice") :
              /\ S[i].chain = m_errorhandlers
              /\ \A j \in StepsOf(S, "unregister") \cup StepsOf(S, "do_disconnect")
                                \cup StepsOf(S, "m_errorhandlers.swap") : i < j
         /\ \A i \in StepsOf(S, "unregister") :
              \A j \in StepsOf(S, "do_disconnect") : i < j
         /\ [i \in 1..Len(m_errorhandlers) |->
               m_errorhandlers[Len(m_errorhandlers) + 1 - i]]
              = [i \in 1..Len(m_errorhandlers) |->
                   S[i + Len(S) - 1 - Len(m_errorhandlers)].handler]
         /\ StepsOf(S, "unregister")
              = (Len(S) - Len(m_errorhandlers))..(Len(S) - 1)
         /\ StepsOf(S, "do_disconnect") = {Len(S)}
         /\ StepTexts(S)
              = (IF m_trans # NoTransaction
                 THEN <<ClosingTransactionText \o <<NL>>>> ELSE <<>>)
                \o (IF RegisteredChannels # {}
                    THEN <<ClosingReceiversText \o <<NL>>>> ELSE <<>>)
         /\ noticed' = StepTexts(S)
         /\ StepsOf(S, "m_receivers.clear")
              = {i + 1 : i \in {j \in StepsOf(S, "process_notice") :
                                  S[j].texts = <<ClosingReceiversText \o <<NL>>>>}}
         /\ (RegisteredChannels # {}) <=> (StepsOf(S, "m_receivers.clear") # {})
         /\ \A k \in 1..Len(seen') :
              \E i \in 1..Len(m_errorhandlers) :
                seen'[k].handler = m_errorhandlers[i]
         /\ (noticed' # <<>> /\ m_errorhandlers # <<>>) =>
              /\ seen' # <<>>
              /\ seen'[1].handler = m_errorhandlers[Len(m_errorhandlers)]
              /\ seen'[1].msg = noticed'[1]
         /\ m_conn' = NoConn /\ m_errorhandlers' = <<>>
         /\ RegisteredChannels' = {}]_vars

\* close() ran with a transaction, receivers and two handlers registered on
\* a session with a handle: both notices went out, the older handler saw
\* one too, and the handle was released.
C18_Witness ==
  /\ last.op = "close"
  /\ last.open
  /\ Cardinality(StepsOf(last.arg, "process_notice")) = 2
  /\ Cardinality(StepsOf(last.arg, "unregister")) = NumHandlers
  /\ StepsOf(last.arg, "m_receivers.clear") # {}
  /\ \E k \in 1..Len(seen) : seen[k].handler = last.arg[1].chain[1]
  /\ teardowns = 1
  /\ m_conn = NoConn

\* The receivers a drain invokes when, for each pending notification in
\* turn, it invokes the receivers of its channel in the order they were
\* added.
RECURSIVE C19_InOrderOfAddition(_, _)
C19_InOrderOfAddition(pend, order) ==
  IF pend = <<>> THEN <<>>
  ELSE order[Head(pend).channel] \o C19_InOrderOfAddition(Tail(pend), order)

\* C19 as stated: when get_notifs() drains the pending notifications, it
\* invokes for each of them every receiver registered for its channel once,
\* in the order in which these receivers were added, and no receiver of
\* another channel.
C19_InvokedInOrderOfAddition ==
  [][(/\ last'.op = "get_notifs"
      /\ IsOpen /\ m_trans = NoTransaction /\ last'.raised = NoError) =>
       [i \in 1..Len(calls') |-> calls'[i].receiver]
         = C19_InOrderOfAddition(pending, added)]_vars

\* C20 as stated: when a receiver throws during get_notifs(), nothing is
\* raised to the caller; there is a notice for every receiver that threw,
\* every receiver of every pending notification has been invoked, nothing
\* stays pending, and the count returned is the number of notifications.
C20_ReceiverExceptionNeverPropagates ==
  [][(/\ last'.op = "get_notifs"
      /\ \E i \in 1..Len(calls') : calls'[i].threw) =>
       /\ last'.raised = NoError
       /\ noticed' = ExceptionNotices(calls')
       /\ [i \in 1..Len(calls') |-> calls'[i].receiver]
            = Flatten([i \in 1..Len(pending) |-> m_receivers[pending[i].channel]])
       /\ pending' = <<>>
       /\ last'.ret = Len(pending)]_vars

\* activate() is called on a session that gets as far as read_capabilities:
\* no activation was attempted before and the handle is in order.
C22_ReadsCapabilities ==
  /\ last'.op = "activate"
  /\ ~m_completed /\ m_conn # NoConn /\ status = "OK"

\* C22 as stated: activation raises feature_not_supported whenever the
\* server version is at most the minimum or the protocol version is below
\* the minimum, and does not raise it otherwise.
C22_UnsupportedIffBelowMinimum ==
  [][C22_ReadsCapabilities =>
       (last'.raised = "feature_not_supported"
          <=> (last'.arg.sv <= MinServerVersion
                 \/ last'.arg.pv < MinProtocolVersion))]_vars

\* C22, amended: activation raises feature_not_supported when the server
\* version is at most the minimum; otherwise it raises broken_connection
\* when the protocol version is reported as 0, and feature_not_supported
\* when the protocol version is another value below the minimum; otherwise
\* it gets past the capability check: the server version is cached, the
\* inert callback is installed on the handle it keeps, and the only error
\* left is a connection that breaks afterwards.
C22_UnsupportedOrNoProtocol ==
  [][C22_ReadsCapabilities =>
       IF last'.arg.sv <= MinServerVersion
       THEN last'.raised = "feature_not_supported"
       ELSE IF last'.arg.pv = 0
       THEN last'.raised = "broken_connection" /\ m_conn' = NoConn
       ELSE IF last'.arg.pv < MinProtocolVersion
       THEN last'.raised = "feature_not_supported"
       ELSE /\ m_serverversion' = last'.arg.sv
            /\ last'.raised \in {NoError, "broken_connection"}
            /\ last'.raised = NoError
                 => (IsOpen' /\ noticeProc' = "inert")
            /\ last'.raised = "broken_connection"
                 => (m_conn' = NoConn /\ sent' # <<>>)]_vars

\* activate() was refused for a protocol version below the minimum that is
\* not 0, reported by a server whose version is supported.
C22_Witness ==
  /\ last.op = "activate"
  /\ last.raised = "feature_not_supported"
  /\ last.arg.sv > MinServerVersion
  /\ last.arg.pv = MinProtocolVersion - 1
  /\ m_completed /\ m_conn # NoConn

\* The LISTEN statements for channel c in a batch.
ListensFor(text, c) == {i \in 1..Len(text) : text[i] = Stmt("LISTEN", c)}

\* C21 as stated: when activate() gets set_up_state past the capability
\* check, a non-empty registry makes it send one batch that holds exactly
\* one LISTEN for each channel of the registry and nothing else, and then
\* ask for results, at least once and as the last thing it does; with an
\* empty registry it sends nothing.
C21_OneListenPerChannel ==
  [][(/\ last'.op = "activate"
      /\ ~m_completed /\ m_conn # NoConn /\ status = "OK"
      /\ read_capabilities(last'.arg.sv, last'.arg.pv) = NoError) =>
       IF RegisteredChannels = {} THEN sent' = <<>>
       ELSE /\ Len(sent') >= 2
            /\ sent'[1].call = "PQsendQuery"
            /\ \A c \in RegisteredChannels :
                 Cardinality(ListensFor(sent'[1].text, c)) = 1
            /\ Len(sent'[1].text) = Cardinality(RegisteredChannels)
            /\ \A i \in 2..Len(sent') : sent'[i] = Sent("PQgetResult", <<>>)]_vars

\* C23: read_copy_line on an open session. For a positive length it leaves
\* the driver's line in the string and returns true; at the end of the data
\* it asks for results until there is none, validating each, and returns
\* false, or raises what the validation raises; for the failure value it
\* raises failure and for the would-block value internal_error. In every
\* case but the first the string is left empty, whatever it held before.
C23_ReadCopyLineByReturnValue ==
  (last.op = "read_copy_line" /\ last.open) =>
    /\ sent[1] = Sent("PQgetCopyData", <<>>)
    /\ IF last.arg.rv > 0
       THEN /\ last.raised = NoError /\ last.ret = 1
            /\ last.arg.after = last.arg.buf
            /\ Len(sent) = 1
       ELSE last.arg.after = <<>>
    /\ last.arg.rv = -2 => (last.raised = "failure" /\ Len(sent) = 1)
    /\ last.arg.rv = 0 => (last.raised = "internal_error" /\ Len(sent) = 1)
    /\ last.arg.rv = -1 =>
         /\ Len(sent) >= 2
         /\ \A i \in 2..Len(sent) : sent[i] = Sent("PQgetResult", <<>>)
         /\ last.raised \in {NoError, "failure", "broken_connection"}
         /\ last.raised = NoError => (last.ret = 0 /\ Len(sent) = 3 /\ IsOpen)
         /\ last.raised = "broken_connection" => ~IsOpen

\* read_copy_line met the end of the data with a string that still held a
\* line from before: it validated the trailing result, returned false and
\* left the string empty.
C23_Witness ==
  /\ last.op = "read_copy_line" /\ last.open
  /\ last.arg.rv = -1
  /\ Len(last.arg.before) = MaxTail
  /\ last.arg.after = <<>>
  /\ last.raised = NoError /\ last.ret = 0
  /\ Len(sent) = 3

\* C24 as stated: when activate() raises, the session is not open after the
\* call, and an activate() that follows raises too.
C24_FailedActivationStaysFailed ==
  [][/\ (last'.op = "activate" /\ last'.raised # NoError) => ~IsOpen'
     /\ (last.op = "activate" /\ last.raised # NoError /\ last'.op = "activate")
          => last'.raised # NoError]_vars

\* The part of C24 that concerns a broken connection: when activate()
\* raises broken_connection the session has no handle and is not open after
\* the call, and an activate() that follows raises broken_connection again.
C24_BrokenActivationStaysFailed ==
  [][/\ (last'.op = "activate" /\ last'.raised = "broken_connection")
          => (~IsOpen' /\ (~m_completed => m_conn' = NoConn))
     /\ (last.op = "activate" /\ last.raised = "broken_connection"
           /\ last'.op = "activate")
          => last'.raised = "broken_connection"]_vars

\* C25: when add_receiver(r) raises, the registry and the server's
\* subscriptions are as they were before the call; it raises an argument
\* error exactly for a null receiver, and a failure only after a LISTEN for
\* a channel without receivers was handed to the driver. A channel that
\* gains its first entry in a call that sent a LISTEN has its subscription,
\* unless the connection broke.
C25_RaisingAddLeavesRegistry ==
  [][last'.op = "add_receiver" =>
       /\ last'.raised # NoError =>
            /\ m_receivers' = m_receivers
            /\ listening' = listening
            /\ last'.raised \in {"argument_error", "failure", "broken_connection"}
       /\ (last'.raised = "argument_error") <=> (last'.arg = NoReceiver)
       /\ last'.raised = "failure" =>
            /\ m_receivers[channel(last'.arg)] = <<>>
            /\ sent' = <<Sent("PQexec", <<Stmt("LISTEN", channel(last'.arg))>>)>>
       /\ \A c \in Channels :
            (m_receivers[c] = <<>> /\ m_receivers'[c] # <<>> /\ sent' # <<>>)
              => (c \in listening' \/ status' = "BAD")]_vars

\* add_receiver raised a failure for a receiver on an open session: the
\* LISTEN was sent and rejected, and the receiver's channel has no entry.
C25_Witness ==
  /\ last.op = "add_receiver"
  /\ last.raised = "failure"
  /\ last.open /\ IsOpen
  /\ last.arg \in Receivers
  /\ m_receivers[channel(last.arg)] = <<>>
  /\ channel(last.arg) \notin listening
  /\ sent # <<>>
  /\ RegisteredChannels # {}

====
